---------------------------- MODULE Spec2Model ----------------------------
(***************************************************************************)
(* A model of jigsaw.py: the SVG jigsaw-pattern generator.                 *)
(*                                                                         *)
(* Floats are modelled in fixed point.  Coordinates, lengths and radii are *)
(* integers in units of 1/Scale pixel; unit vectors, sines, cosines and    *)
(* angles (radians) are integers in units of 1/Trig.  The draws of         *)
(* random.random() are integers in 0..999, standing for r/1000 in [0,1).   *)
(* A raised Python exception is the value of the variable err.             *)
(***************************************************************************)
EXTENDS Integers, Sequences, FiniteSets, TLC

VARIABLES
    pc,            \* position of the program
    ROW_COUNT,     \* number of rows of pieces
    COLUMN_COUNT,  \* number of columns of pieces
    row, column,   \* the loop indices of the driver
    idx,           \* the position of "for out in outs"
    outs,          \* generate_separate: the row-major list of open files
    files,         \* file name -> the sequence of writes it has received
    rng,           \* state of the process-wide random stream
    knob_calls,    \* log of the make_knob calls: start, end, outs, p
    args,          \* the arguments of a direct call of make_knob/append_circle
    p,             \* the caller's point list handed to append_circle
    err            \* the exception raised, "none" while there is none

vars == <<pc, ROW_COUNT, COLUMN_COUNT, row, column, idx, outs, files, rng,
          knob_calls, args, p, err>>

---------------------------------------------------------------------------
(* Bounds of the model.                                                    *)

MaxRows == 3
MaxCols == 3
MaxSeed == 1

---------------------------------------------------------------------------
(* Fixed-point representation and module constants.                        *)

Scale == 100
Trig == 10000

\* tau = 2*math.pi, in units of 1/Trig radian
tau == 62832

DPI == 96

COLOR == "#000000"

WIDTH == COLUMN_COUNT * DPI * Scale
HEIGHT == ROW_COUNT * DPI * Scale

\* CORNER_RADIUS = WIDTH/ROW_COUNT/3.0
CORNER_RADIUS == (WIDTH \div ROW_COUNT) \div 3

Abs(x) == IF x < 0 THEN -x ELSE x

\* math.fabs
fabs(x) == Abs(x)

RECURSIVE SqrtBisect(_, _, _)
SqrtBisect(lo, hi, x) ==
    IF lo >= hi THEN lo
    ELSE LET m == (lo + hi + 1) \div 2
         IN IF m * m <= x THEN SqrtBisect(m, hi, x) ELSE SqrtBisect(lo, m - 1, x)

\* math.sqrt on a non-negative argument (the caller tests the sign)
sqrt(x) == SqrtBisect(0, 46340, x)

\* sine of an angle in [0, tau/4], by its Taylor series
SinQ(x) ==
    LET x2 == (x * x) \div Trig
        t3 == ((x * x2) \div Trig) \div 6
        t5 == ((t3 * x2) \div Trig) \div 20
        t7 == ((t5 * x2) \div Trig) \div 42
        t9 == ((t7 * x2) \div Trig) \div 72
        s  == x - t3 + t5 - t7 + t9
    IN IF s > Trig THEN Trig ELSE s

\* math.sin
sin(th) ==
    LET m == th % tau
        half == tau \div 2
        quarter == tau \div 4
        sign == IF m <= half THEN 1 ELSE -1
        reduced == IF m <= quarter THEN m
                   ELSE IF m <= half THEN half - m
                   ELSE IF m <= half + quarter THEN m - half
                   ELSE tau - m
    IN sign * SinQ(reduced)

\* math.cos
cos(th) == sin(th + tau \div 4)

RECURSIVE AsinBisect(_, _, _)
AsinBisect(lo, hi, x) ==
    IF lo >= hi THEN lo
    ELSE LET m == (lo + hi + 1) \div 2
         IN IF SinQ(m) <= x THEN AsinBisect(m, hi, x) ELSE AsinBisect(lo, m - 1, x)

\* math.asin on an argument in [-1, 1] (in units of 1/Trig)
asin(x) == (IF x >= 0 THEN 1 ELSE -1) * AsinBisect(0, tau \div 4, Abs(x))

---------------------------------------------------------------------------
(* class Vector                                                            *)

Vector(x, y) == [x |-> x, y |-> y]

neg(a) == Vector(-a.x, -a.y)
add(a, b) == Vector(a.x + b.x, a.y + b.y)
sub(a, b) == Vector(a.x - b.x, a.y - b.y)

\* a * (num/den): multiplication by a float held as num in units of 1/den
mul(a, num, den) == Vector((a.x * num) \div den, (a.y * num) \div den)

length(a) == sqrt(a.x * a.x + a.y * a.y)

\* self/self.length(): the division raises ZeroDivisionError on a zero length.
\* The result is a unit vector in units of 1/Trig.
normalized(a) ==
    LET len == length(a)
    IN IF len = 0 THEN [err |-> "ZeroDivisionError", v |-> Vector(0, 0)]
       ELSE [err |-> "none", v |-> Vector((a.x * Trig) \div len, (a.y * Trig) \div len)]

\* Rotated 90 counter-clockwise.
reciprocal(a) == Vector(-a.y, a.x)

---------------------------------------------------------------------------
(* append_circle                                                           *)

\* segment_count = int(math.ceil(20*math.fabs(angle_span)/tau))
segment_count(angle_span) == (20 * fabs(angle_span) + tau - 1) \div tau

\* the point appended at iteration i of the loop
circle_point(v, n, center, radius, start_angle, angle_span, count, i) ==
    LET th == start_angle + (angle_span * i) \div count
    IN add(add(center, mul(mul(v, cos(th), Trig), radius, Trig)),
           mul(mul(n, sin(th), Trig), radius, Trig))

\* The list after the call and the exception raised, if any.  With a zero
\* span segment_count is 0 and the first iteration divides by it.
append_circle(p0, v, n, center, radius, start_angle, end_angle) ==
    LET angle_span == end_angle - start_angle
        count == segment_count(angle_span)
    IN IF count = 0
       THEN [err |-> "ZeroDivisionError", p |-> p0]
       ELSE [err |-> "none",
             p |-> p0 \o [i \in 1..(count + 1) |->
                     circle_point(v, n, center, radius, start_angle,
                                  angle_span, count, i - 1)]]

---------------------------------------------------------------------------
(* polyline and the other writes                                           *)

RECURSIVE RoundDigits(_, _)
RoundDigits(a, unit) ==
    IF a < 1000000 * unit THEN ((a + unit \div 2) \div unit) * unit
    ELSE RoundDigits(a, unit * 10)

\* "%g" % x: x with six significant digits
FormatG(x) == IF x < 0 THEN -RoundDigits(-x, 1) ELSE RoundDigits(x, 1)

\* " ".join("%g,%g" % (v.x, v.y) for v in p)
FormatPoints(pts) == [i \in 1..Len(pts) |-> <<FormatG(pts[i].x), FormatG(pts[i].y)>>]

HeaderText == [kind |-> "header", width |-> WIDTH, height |-> HEIGHT]
FooterText == [kind |-> "footer"]
PolylineText(pts, color) ==
    [kind |-> "polyline", stroke |-> color, points |-> FormatPoints(pts)]
RectText ==
    [kind |-> "rect", rx |-> FormatG(CORNER_RADIUS), ry |-> FormatG(CORNER_RADIUS),
     width |-> FormatG(WIDTH), height |-> FormatG(HEIGHT), stroke |-> COLOR]

\* out.write(text) on each file of the list fs, in order, starting from f
RECURSIVE WriteAll(_, _, _)
WriteAll(f, fs, text) ==
    IF fs = <<>> THEN f
    ELSE WriteAll([f EXCEPT ![Head(fs)] = Append(@, text)], Tail(fs), text)

---------------------------------------------------------------------------
(* make_knob                                                               *)

\* mid = start + (end - start)*(0.4 + random.random()*0.2)
knob_mid(start, end, r1) == add(start, mul(sub(end, start), 400 + (r1 * 2) \div 10, 1000))

\* direction = random.randint(0, 1)*2 - 1
knob_direction(d) == d * 2 - 1

\* faulty variant of knob_small_radius: a radius fraction from 0.03
knob_small_radius_thin(line_length, r2) == (line_length * (3000 + r2)) \div 100000

\* small_radius = line_length*(0.05 + random.random()*0.01)
knob_small_radius(line_length, r2) == (line_length * (5000 + r2)) \div 100000

\* large_radius = small_radius*1.8
knob_large_radius(small_radius) == (small_radius * 18) \div 10

\* The values make_knob computes before it builds the polyline, for the
\* draws r1 (mid), d (direction) and r2 (radius), and the exception raised.
knob_params(start, end, r1, d, r2) ==
    LET line_length == length(sub(end, start))
        mid == knob_mid(start, end, r1)
        nv == normalized(sub(end, start))
    IN IF nv.err # "none" THEN [err |-> nv.err, drawn |-> 1]
       ELSE
       LET v == nv.v
           direction == knob_direction(d)
           n == mul(reciprocal(v), direction, 1)
           knob_start == sub(mid, mul(mul(v, line_length, Trig), 1, 10))
           knob_end == add(mid, mul(mul(v, line_length, Trig), 1, 10))
           small_radius == knob_small_radius(line_length, r2)
           large_radius == knob_large_radius(small_radius)
           tri_base == length(sub(knob_end, knob_start)) \div 2
           tri_hyp == small_radius + large_radius
           radicand == tri_hyp * tri_hyp - tri_base * tri_base
       IN IF radicand < 0 THEN [err |-> "ValueError", drawn |-> 3]
          ELSE
          LET tri_height == sqrt(radicand)
              large_slice_angle == asin((tri_base * Trig) \div tri_hyp)
          IN [err |-> "none", drawn |-> 3,
              line_length |-> line_length, mid |-> mid, v |-> v, n |-> n,
              knob_start |-> knob_start, knob_end |-> knob_end,
              small_radius |-> small_radius, large_radius |-> large_radius,
              tri_base |-> tri_base, tri_hyp |-> tri_hyp, tri_height |-> tri_height,
              large_center_distance |-> small_radius + tri_height,
              small_start_angle |-> -(tau \div 4),
              small_end_angle |-> asin((tri_height * Trig) \div tri_hyp),
              large_start_angle |-> (tau * 3) \div 4 - large_slice_angle,
              large_end_angle |-> -(tau \div 4) + large_slice_angle]

\* faulty variant of knob_points: the final p.append(end) is missing
knob_points_no_end(start, end, g) ==
    LET p0 == <<start, g.knob_start>>
        c1 == append_circle(p0, g.v, g.n,
                  add(g.knob_start, mul(g.n, g.small_radius, Trig)), g.small_radius,
                  g.small_start_angle, g.small_end_angle)
        c2 == append_circle(c1.p, g.v, g.n,
                  add(g.mid, mul(g.n, g.large_center_distance, Trig)), g.large_radius,
                  g.large_start_angle, g.large_end_angle)
        c3 == append_circle(c2.p, neg(g.v), g.n,
                  add(g.knob_end, mul(g.n, g.small_radius, Trig)), g.small_radius,
                  g.small_end_angle, g.small_start_angle)
    IN IF c1.err # "none" THEN [err |-> c1.err, p |-> <<>>]
       ELSE IF c2.err # "none" THEN [err |-> c2.err, p |-> <<>>]
       ELSE IF c3.err # "none" THEN [err |-> c3.err, p |-> <<>>]
       ELSE [err |-> "none", p |-> c3.p \o <<g.knob_end>>]

\* "Make our polyline": the list p, or the exception of an append_circle
knob_points(start, end, g) ==
    LET p0 == <<start, g.knob_start>>
        c1 == append_circle(p0, g.v, g.n,
                  add(g.knob_start, mul(g.n, g.small_radius, Trig)), g.small_radius,
                  g.small_start_angle, g.small_end_angle)
        c2 == append_circle(c1.p, g.v, g.n,
                  add(g.mid, mul(g.n, g.large_center_distance, Trig)), g.large_radius,
                  g.large_start_angle, g.large_end_angle)
        c3 == append_circle(c2.p, neg(g.v), g.n,
                  add(g.knob_end, mul(g.n, g.small_radius, Trig)), g.small_radius,
                  g.small_end_angle, g.small_start_angle)
    IN IF c1.err # "none" THEN [err |-> c1.err, p |-> <<>>]
       ELSE IF c2.err # "none" THEN [err |-> c2.err, p |-> <<>>]
       ELSE IF c3.err # "none" THEN [err |-> c3.err, p |-> <<>>]
       ELSE [err |-> "none", p |-> c3.p \o <<g.knob_end, end>>]

\* make_knob up to its writes: the exception raised, the number of draws
\* taken from the random stream, and the polyline p
knob_curve(start, end, r1, d, r2) ==
    LET g == knob_params(start, end, r1, d, r2)
        k == knob_points(start, end, g)
    IN IF g.err # "none" THEN [err |-> g.err, drawn |-> g.drawn, p |-> <<>>]
       ELSE [err |-> k.err, drawn |-> 3, p |-> k.p]

\* make_knob(dests, start, end, color), k its curve for the draws taken:
\* for out in outs: polyline(out, p, color)
make_knob(dests, start, end, color, k) ==
       /\ err' = k.err
       /\ files' = IF k.err = "none"
                   THEN WriteAll(files, dests, PolylineText(k.p, color))
                   ELSE files
       /\ knob_calls' = Append(knob_calls,
                               [start |-> start, end |-> end, dests |-> dests, p |-> k.p])

---------------------------------------------------------------------------
(* Direct calls of append_circle: every pair of sample angles, on an      *)
(* empty and on a non-empty list.                                          *)

SampleAngles == {-(tau \div 4), 0, 1, tau \div 40, tau \div 8, tau \div 4,
                 tau \div 2, (tau * 3) \div 4, tau}

SampleLists == {<<>>, <<Vector(0, 0)>>, <<Vector(Scale, 0), Vector(0, Scale)>>}

InitCircle ==
    /\ pc = "call"
    /\ ROW_COUNT = 1 /\ COLUMN_COUNT = 1 /\ row = 0 /\ column = 0 /\ idx = 0
    /\ outs = <<>> /\ files = << >> /\ rng = 0 /\ knob_calls = <<>>
    /\ args \in [start_angle : SampleAngles, end_angle : SampleAngles, p0 : SampleLists]
    /\ p = args.p0
    /\ err = "none"

CallAppendCircle ==
    /\ pc = "call"
    /\ LET c == append_circle(p, Vector(Trig, 0), Vector(0, Trig), Vector(0, 0),
                              DPI * Scale, args.start_angle, args.end_angle)
       IN /\ p' = c.p
          /\ err' = c.err
          /\ pc' = IF c.err = "none" THEN "returned" ELSE "raised"
    /\ UNCHANGED <<ROW_COUNT, COLUMN_COUNT, row, column, idx, outs, files, rng,
                   knob_calls, args>>

NextCircle == CallAppendCircle

SpecCircle == InitCircle /\ [][NextCircle]_vars

---------------------------------------------------------------------------
(* Direct calls of make_knob: every pair of sample endpoints (equal ones   *)
(* included) and every sample outcome of the three draws.                  *)

SamplePoints == {Vector(x * DPI * Scale, y * DPI * Scale) : x \in 0..2, y \in 0..1}

SampleDraws == {0, 500, 999}

InitKnob ==
    /\ pc = "call"
    /\ ROW_COUNT = 1 /\ COLUMN_COUNT = 1 /\ row = 0 /\ column = 0 /\ idx = 0
    /\ outs = <<"out">> /\ files = [f \in {"out"} |-> <<HeaderText>>]
    /\ rng = 0 /\ knob_calls = <<>>
    /\ args \in [start : SamplePoints, end : SamplePoints,
                 r1 : SampleDraws, d : 0..1, r2 : SampleDraws]
    /\ p = <<>>
    /\ err = "none"

CallMakeKnob ==
    /\ pc = "call"
    /\ make_knob(outs, args.start, args.end, COLOR,
                 knob_curve(args.start, args.end, args.r1, args.d, args.r2))
    /\ pc' = IF err' = "none" THEN "returned" ELSE "raised"
    /\ UNCHANGED <<ROW_COUNT, COLUMN_COUNT, row, column, idx, outs, rng, args, p>>

NextKnob == CallMakeKnob

SpecKnob == InitKnob /\ [][NextKnob]_vars

---------------------------------------------------------------------------
(* The random stream.  The generator of the random module is modelled by a *)
(* small linear congruential generator: a deterministic stream fixed by    *)
(* its seed, one state step per draw.                                      *)

rng_next(s) == (s * 75 + 74) % 65537

\* random.random(): a float in [0, 1), here r/1000
random_random(s) == [val |-> (rng_next(s) * 1000) \div 65537, state |-> rng_next(s)]

\* random.randint(0, 1)
random_randint(s) == [val |-> (rng_next(s) \div 16) % 2, state |-> rng_next(s)]

\* make_knob drawing from the stream, in the order of the code: mid,
\* direction, radius.  A failing normalization has taken the first draw only.
make_knob_random(dests, start, end, color) ==
    LET a == random_random(rng)
        b == random_randint(a.state)
        c == random_random(b.state)
        k == knob_curve(start, end, a.val, b.val, c.val)
    IN /\ make_knob(dests, start, end, color, k)
       /\ rng' = IF k.drawn = 1 THEN a.state ELSE c.state

---------------------------------------------------------------------------
(* The grid loops shared by generate_single and generate_separate          *)

\* faulty variants of the loop ranges: the last row, the last column included
horizontal_rows_all == ROW_COUNT
vertical_columns_all == COLUMN_COUNT

\* for row in range(ROW_COUNT - 1): for column in range(COLUMN_COUNT)
horizontal_rows == ROW_COUNT - 1
horizontal_columns == COLUMN_COUNT

\* for row in range(ROW_COUNT): for column in range(COLUMN_COUNT - 1)
vertical_rows == ROW_COUNT
vertical_columns == COLUMN_COUNT - 1

\* start and end of the horizontal edge below cell (r, c)
horizontal_edge(r, c) ==
    [start |-> Vector((c * WIDTH) \div COLUMN_COUNT, ((r + 1) * HEIGHT) \div ROW_COUNT),
     end   |-> Vector(((c + 1) * WIDTH) \div COLUMN_COUNT, ((r + 1) * HEIGHT) \div ROW_COUNT)]

\* start and end of the vertical edge right of cell (r, c)
vertical_edge(r, c) ==
    [start |-> Vector(((c + 1) * WIDTH) \div COLUMN_COUNT, (r * HEIGHT) \div ROW_COUNT),
     end   |-> Vector(((c + 1) * WIDTH) \div COLUMN_COUNT, ((r + 1) * HEIGHT) \div ROW_COUNT)]

\* A nested loop "for row in range(rows): for column in range(columns)" has
\* an iteration left at (row, column)
InLoop(rows, columns) == row < rows /\ column < columns

\* the indices of the iteration after (row, column)
Advance(columns) ==
    IF column + 1 < columns
    THEN row' = row /\ column' = column + 1
    ELSE row' = row + 1 /\ column' = 0

\* leave a loop for the statement at position next
Goto(next) == pc' = next /\ row' = 0 /\ column' = 0 /\ idx' = 0

\* an exception leaves the program
Raised == pc' = "raised"

---------------------------------------------------------------------------
(* main                                                                    *)

Seeds == 0..MaxSeed

Init ==
    /\ pc = "main"
    /\ ROW_COUNT \in 1..MaxRows
    /\ COLUMN_COUNT \in 1..MaxCols
    /\ row = 0 /\ column = 0 /\ idx = 0
    /\ outs = <<>>
    /\ files = << >>
    /\ rng \in Seeds
    /\ knob_calls = <<>>
    /\ args = [separate |-> FALSE]
    /\ p = <<>>
    /\ err = "none"

\* (options, args) = parser.parse_args(); the --separate flag selects
main ==
    /\ pc = "main"
    /\ \E separate \in BOOLEAN :
          /\ args' = [separate |-> separate]
          /\ pc' = IF separate THEN "separate_open" ELSE "single_open"
    /\ UNCHANGED <<ROW_COUNT, COLUMN_COUNT, row, column, idx, outs, files, rng,
                   knob_calls, p, err>>

---------------------------------------------------------------------------
(* generate_single                                                         *)

SingleName == <<"jigsaw">>

\* out = open("jigsaw.svg", "w")
single_open ==
    /\ pc = "single_open"
    /\ files' = (SingleName :> <<>>)
    /\ outs' = <<SingleName>>
    /\ pc' = "single_header"
    /\ UNCHANGED <<ROW_COUNT, COLUMN_COUNT, row, column, idx, rng, knob_calls,
                   args, p, err>>

\* write_header(out)
single_header ==
    /\ pc = "single_header"
    /\ files' = WriteAll(files, outs, HeaderText)
    /\ pc' = "single_rect"
    /\ UNCHANGED <<ROW_COUNT, COLUMN_COUNT, row, column, idx, outs, rng,
                   knob_calls, args, p, err>>

\* The rounded-corner rectangle on the outside of the puzzle.
single_rect ==
    /\ pc = "single_rect"
    /\ files' = WriteAll(files, outs, RectText)
    /\ Goto("single_horizontal")
    /\ UNCHANGED <<ROW_COUNT, COLUMN_COUNT, outs, rng, knob_calls, args, p, err>>

\* Horizontal lines: one iteration, or the end of the loop
single_horizontal ==
    /\ pc = "single_horizontal"
    /\ IF InLoop(horizontal_rows, horizontal_columns)
       THEN /\ make_knob_random(outs, horizontal_edge(row, column).start,
                                horizontal_edge(row, column).end, COLOR)
            /\ IF err' = "none"
               THEN pc' = pc /\ Advance(horizontal_columns)
               ELSE Raised /\ UNCHANGED <<row, column>>
            /\ UNCHANGED idx
       ELSE /\ Goto("single_vertical")
            /\ UNCHANGED <<files, rng, knob_calls, err>>
    /\ UNCHANGED <<ROW_COUNT, COLUMN_COUNT, outs, args, p>>

\* Vertical lines: one iteration, or the end of the loop
single_vertical ==
    /\ pc = "single_vertical"
    /\ IF InLoop(vertical_rows, vertical_columns)
       THEN /\ make_knob_random(outs, vertical_edge(row, column).start,
                                vertical_edge(row, column).end, COLOR)
            /\ IF err' = "none"
               THEN pc' = pc /\ Advance(vertical_columns)
               ELSE Raised /\ UNCHANGED <<row, column>>
            /\ UNCHANGED idx
       ELSE /\ Goto("single_footer")
            /\ UNCHANGED <<files, rng, knob_calls, err>>
    /\ UNCHANGED <<ROW_COUNT, COLUMN_COUNT, outs, args, p>>

\* write_footer(out)
single_footer ==
    /\ pc = "single_footer"
    /\ files' = WriteAll(files, outs, FooterText)
    /\ pc' = "done"
    /\ UNCHANGED <<ROW_COUNT, COLUMN_COUNT, row, column, idx, outs, rng,
                   knob_calls, args, p, err>>

generate_single ==
    \/ single_open
    \/ single_header
    \/ single_rect
    \/ single_horizontal
    \/ single_vertical
    \/ single_footer

---------------------------------------------------------------------------
(* generate_separate                                                       *)

\* "jigsaw_%d_%d.svg" % (row, column)
SeparateName(r, c) == <<"jigsaw", r, c>>

\* faulty variant of get_out: the index strides by ROW_COUNT
get_out_row_stride(r, c) ==
    IF ~(r >= 0 /\ r < ROW_COUNT /\ c >= 0 /\ c < COLUMN_COUNT)
    THEN [err |-> "AssertionError", out |-> <<>>]
    ELSE IF r * ROW_COUNT + c >= Len(outs)
    THEN [err |-> "IndexError", out |-> <<>>]
    ELSE [err |-> "none", out |-> outs[r * ROW_COUNT + c + 1]]

\* get_out(row, column): the assertion, then outs[row*COLUMN_COUNT + column]
get_out(r, c) ==
    IF ~(r >= 0 /\ r < ROW_COUNT /\ c >= 0 /\ c < COLUMN_COUNT)
    THEN [err |-> "AssertionError", out |-> <<>>]
    ELSE IF r * COLUMN_COUNT + c >= Len(outs)
    THEN [err |-> "IndexError", out |-> <<>>]
    ELSE [err |-> "none", out |-> outs[r * COLUMN_COUNT + c + 1]]

\* faulty variant of horizontal_neighbors: the cell above the edge twice
horizontal_neighbors_same(r, c) == <<get_out(r, c), get_out(r, c)>>

\* neighbors = [get_out(row, column), get_out(row + 1, column)]
horizontal_neighbors(r, c) == <<get_out(r, c), get_out(r + 1, c)>>

\* neighbors = [get_out(row, column), get_out(row, column + 1)]
vertical_neighbors(r, c) == <<get_out(r, c), get_out(r, c + 1)>>

\* Left border: the cell and the two points of the segment of row r
left_border(r) ==
    LET c == 0
    IN [row |-> r, column |-> c,
        p |-> <<Vector((c * WIDTH) \div COLUMN_COUNT, (r * HEIGHT) \div ROW_COUNT),
                Vector((c * WIDTH) \div COLUMN_COUNT, ((r + 1) * HEIGHT) \div ROW_COUNT)>>]

\* Right border
right_border(r) ==
    LET c == COLUMN_COUNT - 1
    IN [row |-> r, column |-> c,
        p |-> <<Vector(((c + 1) * WIDTH) \div COLUMN_COUNT, (r * HEIGHT) \div ROW_COUNT),
                Vector(((c + 1) * WIDTH) \div COLUMN_COUNT, ((r + 1) * HEIGHT) \div ROW_COUNT)>>]

\* Top border
top_border(c) ==
    LET r == 0
    IN [row |-> r, column |-> c,
        p |-> <<Vector((c * WIDTH) \div COLUMN_COUNT, (r * HEIGHT) \div ROW_COUNT),
                Vector(((c + 1) * WIDTH) \div COLUMN_COUNT, (r * HEIGHT) \div ROW_COUNT)>>]

\* faulty variant of bottom_border: the y of the top of the last row
bottom_border_top(c) ==
    LET r == ROW_COUNT - 1
    IN [row |-> r, column |-> c,
        p |-> <<Vector((c * WIDTH) \div COLUMN_COUNT, (r * HEIGHT) \div ROW_COUNT),
                Vector(((c + 1) * WIDTH) \div COLUMN_COUNT, (r * HEIGHT) \div ROW_COUNT)>>]

\* Bottom border
bottom_border(c) ==
    LET r == ROW_COUNT - 1
    IN [row |-> r, column |-> c,
        p |-> <<Vector((c * WIDTH) \div COLUMN_COUNT, ((r + 1) * HEIGHT) \div ROW_COUNT),
                Vector(((c + 1) * WIDTH) \div COLUMN_COUNT, ((r + 1) * HEIGHT) \div ROW_COUNT)>>]

\* the first exception among the results of a list of get_out calls
FirstErr(gs) ==
    IF \A i \in 1..Len(gs) : gs[i].err = "none" THEN "none"
    ELSE gs[CHOOSE i \in 1..Len(gs) :
                /\ gs[i].err # "none"
                /\ \A j \in 1..(i - 1) : gs[j].err = "none"].err

\* for row in range(ROW_COUNT): for column in range(COLUMN_COUNT):
\*     out = open(...); outs.append(out)
separate_open ==
    /\ pc = "separate_open"
    /\ IF InLoop(ROW_COUNT, COLUMN_COUNT)
       THEN /\ files' = files @@ (SeparateName(row, column) :> <<>>)
            /\ outs' = Append(outs, SeparateName(row, column))
            /\ pc' = pc /\ Advance(COLUMN_COUNT)
            /\ UNCHANGED idx
       ELSE /\ Goto("separate_headers")
            /\ UNCHANGED <<files, outs>>
    /\ UNCHANGED <<ROW_COUNT, COLUMN_COUNT, rng, knob_calls, args, p, err>>

\* for out in outs: write_header(out)
separate_headers ==
    /\ pc = "separate_headers"
    /\ IF idx < Len(outs)
       THEN /\ files' = WriteAll(files, <<outs[idx + 1]>>, HeaderText)
            /\ idx' = idx + 1
            /\ UNCHANGED <<pc, row, column>>
       ELSE /\ Goto("separate_horizontal")
            /\ UNCHANGED files
    /\ UNCHANGED <<ROW_COUNT, COLUMN_COUNT, outs, rng, knob_calls, args, p, err>>

\* one knobbed edge of generate_separate: the get_out calls, then make_knob
separate_knob(neighbors, edge, columns) ==
    IF FirstErr(neighbors) # "none"
    THEN /\ err' = FirstErr(neighbors)
         /\ Raised
         /\ UNCHANGED <<row, column, files, rng, knob_calls>>
    ELSE /\ make_knob_random(<<neighbors[1].out, neighbors[2].out>>,
                             edge.start, edge.end, COLOR)
         /\ IF err' = "none"
            THEN pc' = pc /\ Advance(columns)
            ELSE Raised /\ UNCHANGED <<row, column>>

\* Horizontal lines: one iteration, or the end of the loop
separate_horizontal ==
    /\ pc = "separate_horizontal"
    /\ IF InLoop(horizontal_rows, horizontal_columns)
       THEN /\ separate_knob(horizontal_neighbors(row, column),
                             horizontal_edge(row, column), horizontal_columns)
            /\ UNCHANGED idx
       ELSE /\ Goto("separate_vertical")
            /\ UNCHANGED <<files, rng, knob_calls, err>>
    /\ UNCHANGED <<ROW_COUNT, COLUMN_COUNT, outs, args, p>>

\* Vertical lines: one iteration, or the end of the loop
separate_vertical ==
    /\ pc = "separate_vertical"
    /\ IF InLoop(vertical_rows, vertical_columns)
       THEN /\ separate_knob(vertical_neighbors(row, column),
                             vertical_edge(row, column), vertical_columns)
            /\ UNCHANGED idx
       ELSE /\ Goto("separate_left")
            /\ UNCHANGED <<files, rng, knob_calls, err>>
    /\ UNCHANGED <<ROW_COUNT, COLUMN_COUNT, outs, args, p>>

\* polyline(get_out(row, column), p, COLOR) for the border segment b
border_polyline(b) ==
    LET g == get_out(b.row, b.column)
    IN IF g.err # "none"
       THEN err' = g.err /\ Raised /\ UNCHANGED files
       ELSE /\ files' = WriteAll(files, <<g.out>>, PolylineText(b.p, COLOR))
            /\ UNCHANGED <<pc, err>>

\* Left border: for row in range(ROW_COUNT)
separate_left ==
    /\ pc = "separate_left"
    /\ IF row < ROW_COUNT
       THEN /\ border_polyline(left_border(row))
            /\ row' = IF err' = "none" THEN row + 1 ELSE row
            /\ UNCHANGED <<column, idx>>
       ELSE /\ Goto("separate_right")
            /\ UNCHANGED <<files, err>>
    /\ UNCHANGED <<ROW_COUNT, COLUMN_COUNT, outs, rng, knob_calls, args, p>>

\* Right border: for row in range(ROW_COUNT)
separate_right ==
    /\ pc = "separate_right"
    /\ IF row < ROW_COUNT
       THEN /\ border_polyline(right_border(row))
            /\ row' = IF err' = "none" THEN row + 1 ELSE row
            /\ UNCHANGED <<column, idx>>
       ELSE /\ Goto("separate_top")
            /\ UNCHANGED <<files, err>>
    /\ UNCHANGED <<ROW_COUNT, COLUMN_COUNT, outs, rng, knob_calls, args, p>>

\* Top border: for column in range(COLUMN_COUNT)
separate_top ==
    /\ pc = "separate_top"
    /\ IF column < COLUMN_COUNT
       THEN /\ border_polyline(top_border(column))
            /\ column' = IF err' = "none" THEN column + 1 ELSE column
            /\ UNCHANGED <<row, idx>>
       ELSE /\ Goto("separate_bottom")
            /\ UNCHANGED <<files, err>>
    /\ UNCHANGED <<ROW_COUNT, COLUMN_COUNT, outs, rng, knob_calls, args, p>>

\* Bottom border: for column in range(COLUMN_COUNT)
separate_bottom ==
    /\ pc = "separate_bottom"
    /\ IF column < COLUMN_COUNT
       THEN /\ border_polyline(bottom_border(column))
            /\ column' = IF err' = "none" THEN column + 1 ELSE column
            /\ UNCHANGED <<row, idx>>
       ELSE /\ Goto("separate_footers")
            /\ UNCHANGED <<files, err>>
    /\ UNCHANGED <<ROW_COUNT, COLUMN_COUNT, outs, rng, knob_calls, args, p>>

\* faulty variant of separate_footers: every footer goes to the first file
separate_footers_first ==
    /\ pc = "separate_footers"
    /\ IF idx < Len(outs)
       THEN /\ files' = WriteAll(files, <<outs[1]>>, FooterText)
            /\ idx' = idx + 1
            /\ UNCHANGED <<pc, row, column>>
       ELSE /\ pc' = "done"
            /\ UNCHANGED <<files, row, column, idx>>
    /\ UNCHANGED <<ROW_COUNT, COLUMN_COUNT, outs, rng, knob_calls, args, p, err>>

\* for out in outs: write_footer(out)
separate_footers ==
    /\ pc = "separate_footers"
    /\ IF idx < Len(outs)
       THEN /\ files' = WriteAll(files, <<outs[idx + 1]>>, FooterText)
            /\ idx' = idx + 1
            /\ UNCHANGED <<pc, row, column>>
       ELSE /\ pc' = "done"
            /\ UNCHANGED <<files, row, column, idx>>
    /\ UNCHANGED <<ROW_COUNT, COLUMN_COUNT, outs, rng, knob_calls, args, p, err>>

generate_separate ==
    \/ separate_open
    \/ separate_headers
    \/ separate_horizontal
    \/ separate_vertical
    \/ separate_left
    \/ separate_right
    \/ separate_top
    \/ separate_bottom
    \/ separate_footers

Next == main \/ generate_single \/ generate_separate

Spec == Init /\ [][Next]_vars

---------------------------------------------------------------------------
(* Properties                                                              *)

\* side of a cell, in the model's units
Unit == DPI * Scale

Polylines(doc) == SelectSeq(doc, LAMBDA t : t.kind = "polyline")

\* the written curves of a document that run from point a to point b
CurvesBetween(doc, a, b) ==
    {i \in 1..Len(doc) : /\ doc[i].kind = "polyline"
                         /\ doc[i].points[1] = a
                         /\ doc[i].points[Len(doc[i].points)] = b}

\* how many times the document of file f holds the polyline of points pts
Occurrences(f, pts) ==
    Cardinality({i \in 1..Len(files[f]) :
                    /\ files[f][i].kind = "polyline"
                    /\ files[f][i].points = FormatPoints(pts)})

\* the two cells a knobbed edge from start to end lies between
CellsOfEdge(start, end) ==
    IF start.y = end.y
    THEN LET c == start.x \div Unit
             r == start.y \div Unit - 1
         IN {SeparateName(r, c), SeparateName(r + 1, c)}
    ELSE LET c == start.x \div Unit - 1
             r == start.y \div Unit
         IN {SeparateName(r, c), SeparateName(r, c + 1)}

\* C1: in per-piece mode the point sequence of each make_knob call is
\* written once to the documents of the two cells adjacent to its edge,
\* identical in both, and to no other document.
C1_SharedEdgeSameCurve ==
    args.separate =>
        \A k \in 1..Len(knob_calls) :
            LET call == knob_calls[k]
                cells == CellsOfEdge(call.start, call.end)
            IN /\ Cardinality(cells) = 2
               /\ cells \subseteq DOMAIN files
               /\ \A f \in DOMAIN files :
                     Occurrences(f, call.p) = IF f \in cells THEN 1 ELSE 0

C1_Witness ==
    /\ pc = "separate_left"
    /\ ROW_COUNT = 2 /\ COLUMN_COUNT = 2
    /\ Len(knob_calls) = 4
    /\ \E k \in 1..Len(knob_calls) : knob_calls[k].start.y = knob_calls[k].end.y
    /\ \E k \in 1..Len(knob_calls) : knob_calls[k].start.x = knob_calls[k].end.x

\* the internal edges of the grid, as pairs of endpoints
InternalEdges ==
    {<<Vector(c * Unit, r * Unit), Vector((c + 1) * Unit, r * Unit)>> :
        r \in 1..(ROW_COUNT - 1), c \in 0..(COLUMN_COUNT - 1)}
    \cup
    {<<Vector(c * Unit, r * Unit), Vector(c * Unit, (r + 1) * Unit)>> :
        r \in 0..(ROW_COUNT - 1), c \in 1..(COLUMN_COUNT - 1)}

\* the written two-point polylines, over all files
PlainSegments ==
    {t \in UNION {{<<f, i>> : i \in 1..Len(files[f])} : f \in DOMAIN files} :
        /\ files[t[1]][t[2]].kind = "polyline"
        /\ Len(files[t[1]][t[2]].points) = 2}

\* C2: in both modes no edge gets two make_knob calls, the finished run has
\* made one call for each of the (R-1)*C + R*(C-1) internal edges, and the
\* finished per-piece run has written 2R + 2C plain perimeter segments.
C2_EdgeCounts ==
    /\ \A i, j \in 1..Len(knob_calls) :
          i # j => {knob_calls[i].start, knob_calls[i].end}
                     # {knob_calls[j].start, knob_calls[j].end}
    /\ pc = "done" =>
          /\ Len(knob_calls) = (ROW_COUNT - 1) * COLUMN_COUNT
                                 + ROW_COUNT * (COLUMN_COUNT - 1)
          /\ {<<knob_calls[k].start, knob_calls[k].end>> : k \in 1..Len(knob_calls)}
               = InternalEdges
    /\ (pc = "done" /\ args.separate) =>
          Cardinality(PlainSegments) = 2 * ROW_COUNT + 2 * COLUMN_COUNT

C2_Witness ==
    /\ pc = "done" /\ args.separate
    /\ ROW_COUNT = 2 /\ COLUMN_COUNT = 2
    /\ Len(knob_calls) = 4
    /\ Cardinality(PlainSegments) = 8

\* the four sides of cell (r, c): their end points and whether they lie on
\* the perimeter of the grid
Sides(r, c) ==
    {[a |-> <<c * Unit, r * Unit>>, b |-> <<(c + 1) * Unit, r * Unit>>,
      plain |-> (r = 0)],
     [a |-> <<c * Unit, (r + 1) * Unit>>, b |-> <<(c + 1) * Unit, (r + 1) * Unit>>,
      plain |-> (r = ROW_COUNT - 1)],
     [a |-> <<c * Unit, r * Unit>>, b |-> <<c * Unit, (r + 1) * Unit>>,
      plain |-> (c = 0)],
     [a |-> <<(c + 1) * Unit, r * Unit>>, b |-> <<(c + 1) * Unit, (r + 1) * Unit>>,
      plain |-> (c = COLUMN_COUNT - 1)]}

\* C3: the finished per-piece run has one document per cell, each with
\* exactly 4 curves, one per side of the cell: a two-point segment on a
\* perimeter side, a knob curve on a side shared with a neighbour.  The
\* document of a 1 x 1 grid holds the 4 sides of the unit square, no knob.
C3_FourCurvesPerCell ==
    (pc = "done" /\ args.separate) =>
        /\ DOMAIN files = {SeparateName(r, c) :
                              r \in 0..(ROW_COUNT - 1), c \in 0..(COLUMN_COUNT - 1)}
        /\ Cardinality(DOMAIN files) = ROW_COUNT * COLUMN_COUNT
        /\ \A r \in 0..(ROW_COUNT - 1), c \in 0..(COLUMN_COUNT - 1) :
              LET doc == files[SeparateName(r, c)]
              IN /\ Len(Polylines(doc)) = 4
                 /\ \A s \in Sides(r, c) :
                       /\ Cardinality(CurvesBetween(doc, s.a, s.b)) = 1
                       /\ \A i \in CurvesBetween(doc, s.a, s.b) :
                             (Len(doc[i].points) = 2) <=> s.plain
        /\ (ROW_COUNT = 1 /\ COLUMN_COUNT = 1) =>
              {t.points : t \in {Polylines(files[SeparateName(0, 0)])[i] : i \in 1..4}}
                = {<<<<0, 0>>, <<0, Unit>>>>, <<<<Unit, 0>>, <<Unit, Unit>>>>,
                   <<<<0, 0>>, <<Unit, 0>>>>, <<<<0, Unit>>, <<Unit, Unit>>>>}

C3_Witness ==
    /\ pc = "done" /\ args.separate
    /\ ROW_COUNT = 3 /\ COLUMN_COUNT = 3
    /\ LET inner == Polylines(files[SeparateName(1, 1)])
           corner == Polylines(files[SeparateName(0, 0)])
       IN /\ Len(inner) = 4
          /\ \A i \in 1..4 : Len(inner[i].points) > 2
          /\ Cardinality({i \in 1..Len(corner) : Len(corner[i].points) = 2}) = 2
          /\ Cardinality({i \in 1..Len(corner) : Len(corner[i].points) > 2}) = 2

\* header, then curves, then at most one footer, which is last
DocOrdered(doc) ==
    /\ Len(doc) >= 1 => doc[1].kind = "header"
    /\ \A i \in 2..Len(doc) : doc[i].kind # "header"
    /\ \A i \in 1..Len(doc) : doc[i].kind = "footer" => (i = Len(doc) /\ i > 1)

\* C4: every destination receives one header first, then its curves, then
\* one footer, and nothing after the footer; the finished run has closed
\* every destination with its footer.
C4_HeaderCurvesFooter ==
    \A f \in DOMAIN files :
        /\ DocOrdered(files[f])
        /\ pc = "done" => /\ Len(files[f]) >= 2
                          /\ files[f][Len(files[f])].kind = "footer"

C4_Witness ==
    /\ pc = "done" /\ args.separate
    /\ ROW_COUNT = 1 /\ COLUMN_COUNT = 2
    /\ \A f \in DOMAIN files : Len(files[f]) = 6

\* the knob curves of the single document that run along a row (dy = 0)
\* or along a column (dx = 0)
SingleKnobs(horizontal) ==
    {i \in 1..Len(files[SingleName]) :
        LET t == files[SingleName][i]
        IN /\ t.kind = "polyline"
           /\ Len(t.points) > 2
           /\ IF horizontal
              THEN t.points[1][2] = t.points[Len(t.points)][2]
              ELSE t.points[1][1] = t.points[Len(t.points)][1]}

SingleRects ==
    {i \in 1..Len(files[SingleName]) : files[SingleName][i].kind = "rect"}

SingleDone22 ==
    pc = "done" /\ ~args.separate /\ ROW_COUNT = 2 /\ COLUMN_COUNT = 2

\* C7 as stated: the finished single-file run on a 2 x 2 grid has written
\* 1 horizontal and 2 vertical internal edges, 3 knob curves, and 1 border
\* rectangle.
C7_AsStated ==
    SingleDone22 =>
        /\ Cardinality(SingleKnobs(TRUE)) = 1
        /\ Cardinality(SingleKnobs(FALSE)) = 2
        /\ Len(Polylines(files[SingleName])) = 3
        /\ Cardinality(SingleRects) = 1

\* C7, amended: the finished single-file run on a 2 x 2 grid has written
\* 2 horizontal and 2 vertical internal edges, 4 knob curves, and 1 border
\* rectangle.
C7_TwoByTwoSingle ==
    SingleDone22 =>
        /\ Cardinality(SingleKnobs(TRUE)) = 2
        /\ Cardinality(SingleKnobs(FALSE)) = 2
        /\ Len(Polylines(files[SingleName])) = 4
        /\ Cardinality(SingleKnobs(TRUE) \cup SingleKnobs(FALSE)) = 4
        /\ Cardinality(SingleRects) = 1

C7_Witness ==
    SingleDone22 /\ Len(files[SingleName]) = 7

\* the assertion of get_out
InGrid(r, c) == r >= 0 /\ r < ROW_COUNT /\ c >= 0 /\ c < COLUMN_COUNT

\* a get_out(r, c) call passes its assertion and returns the file opened
\* for (r, c)
GetOutRight(r, c) ==
    /\ InGrid(r, c)
    /\ get_out(r, c).err = "none"
    /\ get_out(r, c).out = SeparateName(r, c)
    /\ SeparateName(r, c) \in DOMAIN files

\* C10: no get_out call of generate_separate fails its assertion: at each
\* iteration of the two edge loops and of the four border loops the calls
\* about to be made have their (row, column) in the grid and return the
\* file opened for that (row, column).
C10_GetOutInGrid ==
    /\ err \notin {"AssertionError", "IndexError"}
    /\ (pc = "separate_horizontal" /\ InLoop(horizontal_rows, horizontal_columns))
          => GetOutRight(row, column) /\ GetOutRight(row + 1, column)
    /\ (pc = "separate_vertical" /\ InLoop(vertical_rows, vertical_columns))
          => GetOutRight(row, column) /\ GetOutRight(row, column + 1)
    /\ (pc = "separate_left" /\ row < ROW_COUNT)
          => GetOutRight(left_border(row).row, left_border(row).column)
    /\ (pc = "separate_right" /\ row < ROW_COUNT)
          => GetOutRight(right_border(row).row, right_border(row).column)
    /\ (pc = "separate_top" /\ column < COLUMN_COUNT)
          => GetOutRight(top_border(column).row, top_border(column).column)
    /\ (pc = "separate_bottom" /\ column < COLUMN_COUNT)
          => GetOutRight(bottom_border(column).row, bottom_border(column).column)

C10_Witness ==
    /\ pc = "separate_footers" /\ idx = 0
    /\ ROW_COUNT = 2 /\ COLUMN_COUNT = 2
    /\ err = "none"
    /\ Len(knob_calls) = 4
    /\ Cardinality(PlainSegments) = 8

---------------------------------------------------------------------------
(* Properties of the direct calls                                          *)

\* the document of the direct make_knob call before the call
KnobDocBefore == <<HeaderText>>

\* C5 as stated: make_knob with start == end fails with a DegenerateEdge
\* error and writes nothing.
C5_DegenerateEdge ==
    (pc # "call" /\ args.start = args.end) =>
        /\ err = "DegenerateEdge"
        /\ files["out"] = KnobDocBefore

\* what the code does on start == end: the ZeroDivisionError of
\* normalized(), nothing written
C5_Observed ==
    (pc # "call" /\ args.start = args.end) =>
        /\ pc = "raised"
        /\ err = "ZeroDivisionError"
        /\ files["out"] = KnobDocBefore

\* C8: for start != end and every outcome of the draws, make_knob returns
\* and its point sequence is start, knob_start, the first small arc, the
\* large arc, the second small arc, knob_end, end, in this order; its first
\* point is start and its last point is end, also in the written polyline.
C8_KnobSequence ==
    (pc # "call" /\ args.start # args.end) =>
        /\ pc = "returned"
        /\ LET g == knob_params(args.start, args.end, args.r1, args.d, args.r2)
               arc1 == append_circle(<<>>, g.v, g.n,
                           add(g.knob_start, mul(g.n, g.small_radius, Trig)),
                           g.small_radius, g.small_start_angle, g.small_end_angle).p
               arc2 == append_circle(<<>>, g.v, g.n,
                           add(g.mid, mul(g.n, g.large_center_distance, Trig)),
                           g.large_radius, g.large_start_angle, g.large_end_angle).p
               arc3 == append_circle(<<>>, neg(g.v), g.n,
                           add(g.knob_end, mul(g.n, g.small_radius, Trig)),
                           g.small_radius, g.small_end_angle, g.small_start_angle).p
               q == knob_calls[1].p
               w == files["out"][Len(files["out"])]
           IN /\ Len(arc1) >= 2 /\ Len(arc2) >= 2 /\ Len(arc3) >= 2
              /\ q = <<args.start, g.knob_start>> \o arc1 \o arc2 \o arc3
                       \o <<g.knob_end, args.end>>
              /\ q[1] = args.start
              /\ q[Len(q)] = args.end
              /\ Len(files["out"]) = 2
              /\ w.kind = "polyline"
              /\ Len(w.points) = Len(q)
              /\ w.points[1] = <<args.start.x, args.start.y>>
              /\ w.points[Len(q)] = <<args.end.x, args.end.y>>

C8_Witness ==
    /\ pc = "returned"
    /\ args.start = Vector(0, 0) /\ args.end = Vector(Unit, Unit)
    /\ args.d = 0
    /\ Len(knob_calls[1].p) > 30

\* C9: for every edge of positive length and every radius draw, tri_hyp is
\* greater than tri_base = 0.1 * line_length, the radicand
\* tri_hyp^2 - tri_base^2 is positive, and the square root raises nothing.
C9_RadicandPositive ==
    args.start # args.end =>
        LET line_length == length(sub(args.end, args.start))
            small_radius == knob_small_radius(line_length, args.r2)
            tri_hyp == small_radius + knob_large_radius(small_radius)
        IN /\ line_length > 0
           /\ 10 * tri_hyp > line_length
           /\ err # "ValueError"
           /\ pc # "call" =>
                 LET g == knob_params(args.start, args.end, args.r1, args.d, args.r2)
                 IN /\ g.err = "none"
                    /\ g.tri_hyp > g.tri_base
                    /\ g.tri_hyp * g.tri_hyp - g.tri_base * g.tri_base > 0
                    /\ g.tri_height > 0

C9_Witness ==
    /\ pc = "returned"
    /\ args.start # args.end
    /\ args.r2 = 0
    /\ err = "none"

\* max(1, ceil(20*|span| / tau))
SegmentsAtLeastOne(span) ==
    IF segment_count(span) < 1 THEN 1 ELSE segment_count(span)

\* C6 as stated: for every start and end angle, the zero span included,
\* append_circle returns, having appended max(1, ceil(20*|span|/tau)) + 1
\* points after the points the list held.
C6_SegmentCountPlusOne ==
    pc # "call" =>
        LET n == SegmentsAtLeastOne(args.end_angle - args.start_angle)
        IN /\ err = "none"
           /\ Len(p) = Len(args.p0) + n + 1
           /\ SubSeq(p, 1, Len(args.p0)) = args.p0

\* what the code does: a span other than zero appends
\* ceil(20*|span|/tau) + 1 points (21 for a full circle); a zero span raises
\* ZeroDivisionError and leaves the list as it was
C6_Observed ==
    pc # "call" =>
        IF args.end_angle # args.start_angle
        THEN /\ err = "none"
             /\ segment_count(args.end_angle - args.start_angle) >= 1
             /\ Len(p) = Len(args.p0)
                           + segment_count(args.end_angle - args.start_angle) + 1
             /\ SubSeq(p, 1, Len(args.p0)) = args.p0
             /\ Abs(args.end_angle - args.start_angle) = tau
                   => Len(p) = Len(args.p0) + 21
        ELSE /\ err = "ZeroDivisionError"
             /\ p = args.p0

=============================================================================
